---- MODULE Spec2Model ----
(***************************************************************************)
(* The delay operator of src/internal/operators/delay.ts: DelaySubscriber  *)
(* buffers every upstream value with a due time, a self-rescheduling       *)
(* scheduler action (DelaySubscriber.dispatch) drains the due values, and  *)
(* error / complete are forwarded under the queue rules of _error and      *)
(* _complete.                                                              *)
(*                                                                         *)
(* Every handler runs to its end before the next one starts (one event     *)
(* loop); time is the scheduler's virtual clock `now`.  `out` is the log   *)
(* of the calls the stage makes on its destination, `arrived` the log of   *)
(* the upstream calls that passed the Subscriber gate.                     *)
(***************************************************************************)
EXTENDS Integers, Sequences, FiniteSets

VARIABLES
    now,            \* scheduler.now()
    config,         \* the `delay` argument of delay(): a number or a Date
    delayFor,       \* DelaySubscriber.delay (delayFor of delay())
    queue,          \* DelaySubscriber.queue: Seq of DelayMessage
    active,         \* DelaySubscriber.active
    isStopped,      \* DelaySubscriber.isStopped (inherited from Subscriber)
    closed,         \* DelaySubscriber.closed (inherited from Subscription)
    actions,        \* the scheduler actions of this stage that are armed
    destStopped,    \* the destination Subscriber is stopped and unsubscribed
    out,            \* calls made on the destination, each with its time
    arrived,        \* upstream calls accepted by the stage, each with its time
    tornDown,       \* the consumer has unsubscribed (external teardown)
    outAtTeardown,  \* Len(out) at the moment of the external teardown
    firedAfterStop, \* a dispatch ran although the destination was stopped
    unsubscribes,   \* number of unsubscribe calls the consumer has made
    invalidated     \* an armed action was cancelled from outside the stage

vars == <<now, config, delayFor, queue, active, isStopped, closed, actions,
          destStopped, out, arrived, tornDown, outAtTeardown, firedAfterStop,
          unsubscribes, invalidated>>

(* the fields of the stage and what its collaborators hold of it *)
stage == <<delayFor, queue, active, isStopped, closed, actions, destStopped, out>>

(* ---------------------------- bounds ---------------------------------- *)
MaxTime == 4
MaxArrivals == 3
MaxDelay == 2
MaxUnsubscribes == 2

(* T is opaque to the stage, which never inspects a value: the n-th value to
   arrive is labelled n, so that a loss, a duplicate or a reordering shows in
   the log *)
Labels == <<"v1", "v2", "v3", "v4", "v5", "v6", "v7", "v8">>

Values == {Labels[n] : n \in 1..(MaxArrivals + 1)}
Errors == {"e1", "e2"}

(* the delay argument: a number of milliseconds, or a Date given by its time
   in milliseconds on the scheduler's clock, which reads 0 at construction *)
Configs ==
    [kind : {"number"}, ms : (0 - MaxDelay)..MaxDelay]
        \cup [kind : {"Date"}, ms : (0 - MaxDelay)..MaxDelay]

(* ---------------------------- helpers --------------------------------- *)
Max(a, b) == IF a >= b THEN a ELSE b

Abs(n) == IF n < 0 THEN 0 - n ELSE n

isValidDate(d) == d.kind = "Date"

DelayMessage(time, value) == [time |-> time, value |-> value]

Msg(kind, value) == [kind |-> kind, value |-> value, at |-> now]

ValuesOf(log) == SelectSeq(log, LAMBDA m : m.kind = "next")

IsPrefix(s, t) == Len(s) <= Len(t) /\ \A i \in 1..Len(s) : s[i] = t[i]

(* delay(): the duration handed to DelayOperator *)
delay_Clamp(d, schedulerNow) ==
    IF isValidDate(d) THEN d.ms - schedulerNow ELSE Max(0, d.ms)

delay(d, schedulerNow) ==
    IF isValidDate(d) THEN d.ms - schedulerNow ELSE Abs(d.ms)

(* scheduler.schedule / action.schedule: a timer armed `wait` from now; a
   negative wait fires as soon as possible *)
schedule(wait) == [due |-> now + Max(0, wait), wait |-> wait, parent |-> "none"]

(* Subscription.add: the action is torn down with the subscription it is
   added to *)
add(parent, action) == [action EXCEPT !.parent = parent]

(* Subscription.unsubscribe of the destination cancels what was added to it *)
Cancelled(acts) == SelectSeq(acts, LAMBDA a : a.parent # "destination")

Remove(acts, i) == [j \in 1..(Len(acts) - 1) |-> IF j < i THEN acts[j] ELSE acts[j + 1]]

(* ---------------------------- Init ------------------------------------ *)
Init ==
    /\ now = 0
    /\ config \in Configs
    /\ delayFor = delay(config, now)
    /\ queue = <<>>
    /\ active = FALSE
    /\ isStopped = FALSE
    /\ closed = FALSE
    /\ actions = <<>>
    /\ destStopped = FALSE
    /\ out = <<>>
    /\ arrived = <<>>
    /\ tornDown = FALSE
    /\ outAtTeardown = 0
    /\ firedAfterStop = FALSE
    /\ unsubscribes = 0
    /\ invalidated = FALSE

(* ---------------------------- _schedule ------------------------------- *)
_schedule_NoAdd(acts) == Append(acts, schedule(delayFor))

_schedule_ZeroWait(acts) == Append(acts, add("destination", schedule(0)))

_schedule(acts) == Append(acts, add("destination", schedule(delayFor)))

(* ---------------------------- _next ----------------------------------- *)
_next_AlwaysSchedule(value) ==
    /\ queue' = Append(queue, DelayMessage(now + delayFor, value))
    /\ active' = TRUE
    /\ actions' = _schedule(actions)

_next_NoFlag(value) ==
    /\ queue' = Append(queue, DelayMessage(now + delayFor, value))
    /\ IF active = FALSE
       THEN /\ active' = FALSE
            /\ actions' = _schedule(actions)
       ELSE UNCHANGED <<active, actions>>

_next_Unshift(value) ==
    /\ queue' = <<DelayMessage(now + delayFor, value)>> \o queue
    /\ IF active = FALSE
       THEN /\ active' = TRUE
            /\ actions' = _schedule(actions)
       ELSE UNCHANGED <<active, actions>>

_next(value) ==
    /\ queue' = Append(queue, DelayMessage(now + delayFor, value))
    /\ IF active = FALSE
       THEN /\ active' = TRUE
            /\ actions' = _schedule(actions)
       ELSE UNCHANGED <<active, actions>>

(* Subscriber.next: the gate in front of _next *)
next(value) ==
    /\ ~isStopped
    /\ Len(ValuesOf(arrived)) < MaxArrivals
    /\ value = Labels[Len(ValuesOf(arrived)) + 1]
    /\ now + delayFor <= MaxTime
    /\ arrived' = Append(arrived, Msg("next", value))
    /\ _next(value)
    /\ UNCHANGED <<now, config, delayFor, isStopped, closed, destStopped, out,
                   tornDown, outAtTeardown, firedAfterStop, unsubscribes, invalidated>>

(* ---------------------------- _error ---------------------------------- *)
_error_KeepQueue(err) ==
    /\ queue' = queue
    /\ out' = Append(out, Msg("error", err))
    /\ destStopped' = TRUE
    /\ actions' = IF destStopped THEN actions ELSE Cancelled(actions)
    /\ closed' = TRUE

_error(err) ==
    /\ queue' = <<>>
    /\ out' = Append(out, Msg("error", err))
    /\ destStopped' = TRUE
    /\ actions' = IF destStopped THEN actions ELSE Cancelled(actions)
    /\ closed' = TRUE

(* Subscriber.error: the gate in front of _error *)
error(err) ==
    /\ ~isStopped
    /\ isStopped' = TRUE
    /\ arrived' = Append(arrived, Msg("error", err))
    /\ _error(err)
    /\ UNCHANGED <<now, config, delayFor, active, tornDown, outAtTeardown,
                   firedAfterStop, unsubscribes, invalidated>>

(* ---------------------------- _complete ------------------------------- *)
_complete_Always ==
    /\ out' = Append(out, Msg("complete", "-"))
    /\ destStopped' = TRUE
    /\ actions' = IF destStopped THEN actions ELSE Cancelled(actions)
    /\ closed' = TRUE
    /\ UNCHANGED queue

_complete_Never ==
    /\ closed' = TRUE
    /\ UNCHANGED <<out, destStopped, actions, queue>>

_complete ==
    /\ IF Len(queue) = 0
       THEN /\ out' = Append(out, Msg("complete", "-"))
            /\ destStopped' = TRUE
            /\ actions' = IF destStopped THEN actions ELSE Cancelled(actions)
       ELSE UNCHANGED <<out, destStopped, actions>>
    /\ closed' = TRUE
    /\ UNCHANGED queue

(* Subscriber.complete: the gate in front of _complete *)
complete ==
    /\ ~isStopped
    /\ isStopped' = TRUE
    /\ arrived' = Append(arrived, Msg("complete", "-"))
    /\ _complete
    /\ UNCHANGED <<now, config, delayFor, active, tornDown, outAtTeardown,
                   firedAfterStop, unsubscribes, invalidated>>

(* ---------------------------- dispatch -------------------------------- *)
(* the while loop of dispatch: the queue that is left *)
drained_OnlyHead(q) ==
    IF Len(q) > 0 /\ q[1].time - now <= 0 THEN Tail(q) ELSE q

RECURSIVE drained(_)
drained(q) ==
    IF Len(q) > 0 /\ q[1].time - now <= 0 THEN drained(Tail(q)) ELSE q

(* the while loop of dispatch: the destination.next calls it makes *)
RECURSIVE emitted_Pop(_, _)
emitted_Pop(q, o) ==
    IF Len(q) > 0 /\ q[1].time - now <= 0
    THEN emitted_Pop(SubSeq(q, 1, Len(q) - 1), Append(o, Msg("next", q[Len(q)].value)))
    ELSE o

RECURSIVE emitted(_, _)
emitted(q, o) ==
    IF Len(q) > 0 /\ q[1].time - now <= 0
    THEN emitted(Tail(q), Append(o, Msg("next", q[1].value)))
    ELSE o

(* the if / else if / else of dispatch after the loop *)
branch_StoppedFirst(q) ==
    IF isStopped THEN "complete" ELSE IF Len(q) > 0 THEN "schedule" ELSE "unsubscribe"

branch_NeverSchedule(q) ==
    IF isStopped THEN "complete" ELSE "unsubscribe"

branch(q) ==
    IF Len(q) > 0 THEN "schedule" ELSE IF isStopped THEN "complete" ELSE "unsubscribe"

(* the delay dispatch rearms its action with *)
rearmDelay_Fixed(q) == delayFor

rearmDelay(q) == Max(0, q[1].time - now)

(* the scheduler runs armed action i, whose time has come *)
dispatch(i) ==
    /\ i \in 1..Len(actions)
    /\ actions[i].due <= now
    /\ queue' = drained(queue)
    /\ firedAfterStop' = (firedAfterStop \/ destStopped)
    /\ IF branch(queue') = "schedule"
       THEN /\ actions' = [actions EXCEPT ![i] =
                    add(actions[i].parent, schedule(rearmDelay(queue')))]
            /\ out' = emitted(queue, out)
            /\ UNCHANGED <<active, destStopped, isStopped, closed>>
       ELSE IF branch(queue') = "complete"
       THEN /\ out' = Append(emitted(queue, out), Msg("complete", "-"))
            /\ destStopped' = TRUE
            /\ actions' = IF destStopped THEN Remove(actions, i) ELSE Cancelled(Remove(actions, i))
            /\ active' = FALSE
            /\ UNCHANGED <<isStopped, closed>>
       ELSE /\ out' = emitted(queue, out)
            /\ actions' = Remove(actions, i)
            /\ active' = FALSE
            /\ UNCHANGED <<destStopped, isStopped, closed>>
    /\ UNCHANGED <<now, config, delayFor, arrived, tornDown, outAtTeardown,
                   unsubscribes, invalidated>>

(* ---------------------------- teardown -------------------------------- *)
(* the consumer unsubscribes: the destination Subscriber is unsubscribed, and
   with it the DelaySubscriber and the actions added to it; on a destination
   that is closed already the call returns at once *)
unsubscribe_Completes ==
    /\ unsubscribes < MaxUnsubscribes
    /\ unsubscribes' = unsubscribes + 1
    /\ out' = Append(out, Msg("complete", "-"))
    /\ destStopped' = TRUE
    /\ isStopped' = TRUE
    /\ closed' = TRUE
    /\ actions' = Cancelled(actions)
    /\ tornDown' = (tornDown \/ ~destStopped)
    /\ outAtTeardown' = IF destStopped THEN outAtTeardown ELSE Len(out)
    /\ UNCHANGED <<now, config, delayFor, queue, active, arrived, firedAfterStop,
                   invalidated>>

unsubscribe ==
    /\ unsubscribes < MaxUnsubscribes
    /\ unsubscribes' = unsubscribes + 1
    /\ IF destStopped
       THEN UNCHANGED <<destStopped, isStopped, closed, actions, tornDown, outAtTeardown>>
       ELSE /\ destStopped' = TRUE
            /\ isStopped' = TRUE
            /\ closed' = TRUE
            /\ actions' = Cancelled(actions)
            /\ tornDown' = TRUE
            /\ outAtTeardown' = Len(out)
    /\ UNCHANGED <<now, config, delayFor, queue, active, out, arrived, firedAfterStop,
                   invalidated>>

(* ---------------------------- the scheduler --------------------------- *)
(* armed action i is cancelled by something other than the stage or its
   consumer (the scheduler unsubscribes the actions left in a flush that
   failed) *)
invalidate(i) ==
    /\ i \in 1..Len(actions)
    /\ actions' = Remove(actions, i)
    /\ invalidated' = TRUE
    /\ UNCHANGED <<now, config, delayFor, queue, active, isStopped, closed,
                   destStopped, out, arrived, tornDown, outAtTeardown, firedAfterStop,
                   unsubscribes>>

(* ---------------------------- the clock ------------------------------- *)
Tick ==
    /\ now < MaxTime
    /\ now' = now + 1
    /\ UNCHANGED <<config, delayFor, queue, active, isStopped, closed, actions,
                   destStopped, out, arrived, tornDown, outAtTeardown, firedAfterStop,
                   unsubscribes, invalidated>>

(* a scheduler that fires every wakeup exactly at its requested time: the
   clock does not pass an armed action *)
TickExact ==
    /\ \A i \in 1..Len(actions) : actions[i].due > now
    /\ Tick

Next ==
    \/ \E value \in Values : next(value)
    \/ \E err \in Errors : error(err)
    \/ complete
    \/ \E i \in 1..Len(actions) : dispatch(i)
    \/ unsubscribe
    \/ Tick

Spec == Init /\ [][Next]_vars

NextExact ==
    \/ \E value \in Values : next(value)
    \/ \E err \in Errors : error(err)
    \/ complete
    \/ \E i \in 1..Len(actions) : dispatch(i)
    \/ unsubscribe
    \/ TickExact

SpecExact == Init /\ [][NextExact]_vars

(* the stage with a scheduler whose handles can be invalidated from outside *)
NextInvalidate ==
    \/ \E value \in Values : next(value)
    \/ \E err \in Errors : error(err)
    \/ complete
    \/ \E i \in 1..Len(actions) : dispatch(i)
    \/ \E i \in 1..Len(actions) : invalidate(i)
    \/ unsubscribe
    \/ Tick

SpecInvalidate == Init /\ [][NextInvalidate]_vars

(* scheduler fairness: the clock advances and an armed action whose time has
   come is run *)
LiveSpec ==
    /\ Spec
    /\ WF_vars(Tick)
    /\ WF_vars(\E i \in 1..Len(actions) : dispatch(i))

(* ---------------------------- properties ------------------------------ *)
ValueSeq(log) == [i \in 1..Len(ValuesOf(log)) |-> ValuesOf(log)[i].value]

HasKind(log, kind) == \E i \in 1..Len(log) : log[i].kind = kind

LastKind(log, kind) == Len(log) > 0 /\ log[Len(log)].kind = kind

IsTerminal(m) == m.kind \in {"error", "complete"}

(* the arrival of the value that sits at place j of the queue *)
ArrivalOf(j) == ValuesOf(arrived)[Len(ValuesOf(arrived)) - Len(queue) + j]

(* C1: the values emitted downstream are, in every reachable state, a prefix
   of the values that arrived from upstream, in arrival order. *)
C1_OrderPreserved == IsPrefix(ValueSeq(out), ValueSeq(arrived))

C1_Witness ==
    /\ ~HasKind(arrived, "error")
    /\ Len(ValueSeq(out)) >= 2
    /\ ValueSeq(out)[1] # ValueSeq(out)[2]

(* C2: complete is forwarded downstream only once the queue is empty and
   every arrived value has been delivered, in order; it is the last call
   made downstream, so no value follows it. *)
C2_CompleteAfterDrain ==
    \A i \in 1..Len(out) :
        out[i].kind = "complete" =>
            /\ i = Len(out)
            /\ queue = <<>>
            /\ ValueSeq(out) = ValueSeq(arrived)

C2_Witness ==
    /\ LastKind(out, "complete")
    /\ LastKind(arrived, "complete")
    /\ Len(ValueSeq(out)) >= 2
    /\ arrived[Len(arrived)].at < out[Len(out) - 1].at

(* C3: once upstream has signalled an error, the queue is empty and the last
   call made downstream is that same error, made at the time (in the step)
   the error arrived: nothing buffered at that moment is delivered later. *)
C3_ErrorBypass ==
    \A i \in 1..Len(arrived) :
        arrived[i].kind = "error" =>
            /\ queue = <<>>
            /\ Len(out) > 0
            /\ out[Len(out)] = arrived[i]

C3_Witness ==
    /\ LastKind(arrived, "error")
    /\ Len(ValueSeq(arrived)) >= Len(ValueSeq(out)) + 2
    /\ now > arrived[Len(arrived)].at

(* C4: with a scheduler that fires every wakeup exactly at its requested
   time, the i-th value is emitted downstream at exactly its arrival time
   plus delayDuration. *)
C4_ExactSpacing ==
    \A i \in 1..Len(ValuesOf(out)) :
        ValuesOf(out)[i].at = ValuesOf(arrived)[i].at + delayFor

(* C5: after the external teardown no action is armed, no dispatch has run
   and nothing more has been sent downstream. *)
C5_TeardownCancels ==
    tornDown =>
        /\ actions = <<>>
        /\ Len(out) = outAtTeardown
        /\ ~firedAfterStop

C5_Witness ==
    /\ tornDown
    /\ active
    /\ Len(queue) >= 2
    /\ now > queue[1].time

(* C6: once upstream has completed, unless the consumer tears the stage
   down, every arrived value is eventually emitted downstream and complete
   follows. *)
Delivered == LastKind(out, "complete") /\ ValueSeq(out) = ValueSeq(arrived)

C6_EventuallyDelivered ==
    (HasKind(arrived, "complete") /\ ~tornDown) ~> (tornDown \/ Delivered)

C6_Witness ==
    /\ Delivered
    /\ ~tornDown
    /\ Len(ValueSeq(out)) >= 3
    /\ arrived[Len(arrived)].at < out[1].at

(* C7: a complete that arrives while the queue is empty is forwarded
   downstream in that very step, and the stage is torn down. *)
C7_ImmediateComplete ==
    [][(/\ Len(arrived') = Len(arrived) + 1
        /\ arrived'[Len(arrived')].kind = "complete"
        /\ queue = <<>>)
       => (/\ out' = Append(out, Msg("complete", "-"))
           /\ closed'
           /\ destStopped'
           /\ actions' = <<>>)]_vars

C7_Witness ==
    /\ Len(arrived) = 1
    /\ arrived[1].kind = "complete"
    /\ out = arrived
    /\ closed

(* C8: at most one dispatch action is armed at any moment. *)
C8_OneArmedAction == Len(actions) <= 1

C8_Witness == Len(actions) = 1 /\ Len(queue) >= 2

(* C9: a terminal call (error or complete) on the destination is the last
   call made on it: at most one terminal, and no value after it. *)
C9_OneTerminal ==
    \A i \in 1..Len(out) : IsTerminal(out[i]) => i = Len(out)

C9_Witness ==
    /\ LastKind(out, "error")
    /\ Len(out) >= 2
    /\ active
    /\ now > out[Len(out)].at + delayFor

(* C10 as stated: a negative delay is treated as zero delay, every value's
   due time is its arrival time. *)
C10_NegativeIsZero ==
    (config.kind = "number" /\ config.ms < 0) =>
        \A j \in 1..Len(queue) : queue[j].time = ArrivalOf(j).at

(* C10 amended: a negative delay is treated as its magnitude, every value's
   due time is its arrival time plus that magnitude. *)
C10_NegativeIsMagnitude ==
    (config.kind = "number" /\ config.ms < 0) =>
        /\ delayFor = 0 - config.ms
        /\ \A j \in 1..Len(queue) : queue[j].time = ArrivalOf(j).at + (0 - config.ms)

C10_Witness ==
    /\ config.kind = "number"
    /\ config.ms < 0
    /\ Len(queue) >= 2
    /\ queue[1].time < queue[2].time

(* the queued items that are due, and those that are not, at the time now *)
DueItems(q) == SelectSeq(q, LAMBDA m : m.time <= now)

NotDue(q) == SelectSeq(q, LAMBDA m : m.time > now)

AsNext(items) == [j \in 1..Len(items) |-> Msg("next", items[j].value)]

(* C11: an unsubscribe call on a stage that is already torn down (by an
   earlier unsubscribe, an error or a delivered completion) changes nothing
   of the stage and sends nothing downstream. *)
C11_TeardownIdempotent ==
    [][(unsubscribes' = unsubscribes + 1 /\ destStopped)
       => UNCHANGED <<stage, arrived, now>>]_vars

C11_Witness ==
    /\ unsubscribes >= 2
    /\ tornDown
    /\ queue # <<>>

(* C12: once an armed action has been cancelled from outside, no action of
   the stage is armed any more and the stage is torn down (stopped and
   unsubscribed). *)
C12_InvalidatedIsTornDown ==
    invalidated => (actions = <<>> /\ isStopped /\ closed)

(* C13: a wakeup at time now removes from the queue exactly the items whose
   due time is at most now, and sends exactly those downstream, in queue
   order, in that one wakeup. *)
C13_DrainsExactlyDue ==
    [][(\E i \in 1..Len(actions) : dispatch(i))
       => (/\ queue' = NotDue(queue)
           /\ ValuesOf(out') = ValuesOf(out) \o AsNext(DueItems(queue)))]_vars

C13_Witness ==
    \E i \in 1..(Len(ValuesOf(out)) - 1) :
        /\ ValuesOf(out)[i].at = ValuesOf(out)[i + 1].at
        /\ ValuesOf(arrived)[i].at < ValuesOf(arrived)[i + 1].at
        /\ ValuesOf(out)[i + 1].at > ValuesOf(arrived)[i + 1].at + delayFor
        /\ queue # <<>>

(* C14: a wakeup that leaves items in the queue rearms its own action with
   wait max(0, head.dueTime - now), the flag stays set, and complete is not
   forwarded in that wakeup, also when upstream has completed. *)
C14_RearmsForHead ==
    [][\A i \in 1..Len(actions) :
         (dispatch(i) /\ NotDue(queue) # <<>>)
         => (/\ Len(actions') = Len(actions)
             /\ actions'[i].wait = Max(0, NotDue(queue)[1].time - now)
             /\ actions'[i].due = now + Max(0, NotDue(queue)[1].time - now)
             /\ actions'[i].parent = actions[i].parent
             /\ active'
             /\ ~destStopped'
             /\ ~HasKind(out', "complete"))]_vars

C14_Witness ==
    /\ HasKind(arrived, "complete")
    /\ LastKind(out, "next")
    /\ out[Len(out)].at = now
    /\ queue # <<>>
    /\ Len(actions) = 1
    /\ actions[1].wait > 0
    /\ actions[1].wait < delayFor
    /\ actions[1].due = queue[1].time

(* C15 as stated: the Activity Flag is true exactly when an action is armed,
   in every reachable state. *)
C15_FlagIffArmed == active <=> (actions # <<>>)

(* C15 amended: an armed action implies the flag; the flag is set with no
   action armed only after an upstream error or an external teardown. *)
C15_FlagIffArmedUntilStopped ==
    /\ actions # <<>> => active
    /\ (active /\ actions = <<>>) => (HasKind(arrived, "error") \/ tornDown)

C15_Witness ==
    /\ LastKind(out, "complete")
    /\ ~active
    /\ actions = <<>>
    /\ arrived[Len(arrived)].at < out[Len(out)].at

(* C16: after an upstream error the stage is stopped and unsubscribed, no
   action is armed and no dispatch has run since. *)
C16_ErrorTearsDown ==
    HasKind(arrived, "error") =>
        /\ isStopped
        /\ closed
        /\ actions = <<>>
        /\ ~firedAfterStop

C16_Witness ==
    /\ LastKind(arrived, "error")
    /\ active
    /\ closed
    /\ Len(ValueSeq(out)) >= 1
    /\ Len(ValueSeq(arrived)) > Len(ValueSeq(out))
    /\ now > arrived[Len(arrived) - 1].at + delayFor

(* C17: a wakeup that empties the queue while upstream has not completed
   leaves no action armed and the flag cleared; a value enqueued while the
   flag is clear arms exactly one action, with wait delayDuration. *)
C17_IdleThenArm ==
    [][/\ \A i \in 1..Len(actions) :
            (dispatch(i) /\ NotDue(queue) = <<>> /\ ~isStopped)
            => (actions' = <<>> /\ ~active')
       /\ \A value \in Values :
            (next(value) /\ ~active)
            => (Len(actions') = 1 /\ actions'[1].wait = delayFor /\ active')]_vars

C17_Witness ==
    /\ Len(ValueSeq(out)) >= 1
    /\ Len(queue) = 1
    /\ Len(actions) = 1
    /\ actions[1].wait = delayFor
    /\ actions[1].due > out[Len(out)].at + delayFor
    /\ ~isStopped

(* C18: the queue is sorted by non-decreasing due time and holds the latest
   arrivals in arrival order. *)
C18_QueueSorted ==
    /\ \A j \in 1..(Len(queue) - 1) : queue[j].time <= queue[j + 1].time
    /\ \A j \in 1..Len(queue) : queue[j].value = ArrivalOf(j).value

C18_Witness ==
    /\ Len(queue) >= 3
    /\ queue[1].time < queue[2].time
    /\ queue[2].time < queue[3].time

(* C19: the duration added to now() to compute a due time is never
   negative, for a number and for a Date alike: no due time lies before the
   arrival it belongs to. *)
C19_NonNegativeDelay ==
    \A j \in 1..Len(queue) : queue[j].time - ArrivalOf(j).at >= 0

(* C20: while the queue is non-empty and the stage has neither errored nor
   been torn down, exactly one action is armed. *)
C20_BufferedIsArmed ==
    (queue # <<>> /\ ~HasKind(arrived, "error") /\ ~tornDown) => Len(actions) = 1

C20_Witness ==
    /\ queue # <<>>
    /\ ~isStopped
    /\ Len(actions) = 1
    /\ now > queue[1].time
    /\ Len(ValueSeq(out)) >= 1
====
